---- MODULE Spec2Model ----
(***************************************************************************)
(* Model of src/app.py: rolling-window anomaly detection over a city's     *)
(* temperature series, the sequential and process-pool batch runs over all *)
(* cities, and the page run that classifies a live reading against the     *)
(* seasonal statistics of the selected city.                               *)
(*                                                                         *)
(* Numbers.  Historical temperatures are integers (degrees).  pandas does  *)
(* the arithmetic in float64; the model does it exactly:                   *)
(*   - a rolling mean is the rational num/den;                             *)
(*   - a rolling standard deviation is sqrt(sq_num/sq_den);                *)
(*   - a bound is num/den + k*sqrt(sq_num/sq_den), k = 2 or -2;            *)
(*   - NaN is a value of its own, and every comparison with it is FALSE.   *)
(* The seasonal statistics are rounded to 2 decimals by the code, so they  *)
(* are integers counted in hundredths of a degree, as is the live reading. *)
(***************************************************************************)
EXTENDS Integers, Sequences, FiniteSets, TLC

VARIABLES
    data,           \* the DataFrame under analysis: a sequence of rows
    window,         \* the window argument of calculate_anomalies
    pc,             \* position of the run
    result,         \* what calculate_anomalies returned (None before the call)
    seq_result,     \* analyze_data_sequential's dict (None before the call)
    call_queue,     \* ProcessPoolExecutor: task numbers not yet taken by a worker
    running,        \* ProcessPoolExecutor: worker -> task number it computes, 0 when idle
    futures,        \* ProcessPoolExecutor: task number -> its future
    completed,      \* ProcessPoolExecutor: the task numbers, in the order the tasks finished
    par_result,     \* analyze_data_parallel's dict under construction
    selected_city,  \* st.selectbox
    api_key,        \* st.text_input: TRUE when a key was typed
    use_async,      \* st.checkbox
    stats,          \* the rounded per-season table of main
    seasonal_stats, \* the unrounded per-season table of main (seasonal profile chart)
    weather_data,   \* what get_weather_async / get_weather_sync returned
    live,           \* current_temp, current_month, current_season and is_anomaly of main
    ui              \* messages of the live-weather section, in the order shown

coreVars  == <<data, window, pc, result>>
batchVars == <<seq_result, call_queue, running, futures, completed, par_result>>
mainVars  == <<selected_city, api_key, use_async, stats, seasonal_stats,
               weather_data, live, ui>>
vars      == <<coreVars, batchVars, mainVars>>

None == "None"

(***************************************************************************)
(* Bounds of the model.                                                    *)
(***************************************************************************)
MaxLen    == 6      \* longest enumerated series
MaxTemp   == 2      \* enumerated temperatures are 0..MaxTemp
MaxWindow == 6      \* enumerated windows are 1..MaxWindow

DefaultWindow == 30

(***************************************************************************)
(* Numbers                                                                 *)
(***************************************************************************)
NaN == [nan |-> TRUE, num |-> 0, den |-> 1, k |-> 0, sq_num |-> 0, sq_den |-> 1]

\* the rational n/d (d > 0)
Rat(n, d) == [nan |-> FALSE, num |-> n, den |-> d, k |-> 0, sq_num |-> 0, sq_den |-> 1]

\* sqrt(n/d) (n >= 0, d > 0)
Root(n, d) == [nan |-> FALSE, num |-> 0, den |-> 1, k |-> 1, sq_num |-> n, sq_den |-> d]

\* c * s for an integer c and a standard deviation s
Times(c, s) == IF s.nan THEN NaN ELSE [s EXCEPT !.k = c * s.k]

\* m + s and m - s for a mean m and a multiple s of a standard deviation
Plus(m, s) ==
    IF m.nan \/ s.nan THEN NaN
    ELSE [nan |-> FALSE, num |-> m.num, den |-> m.den,
          k |-> s.k, sq_num |-> s.sq_num, sq_den |-> s.sq_den]

Minus(m, s) == Plus(m, Times(-1, s))

RECURSIVE GCD(_, _)
GCD(a, b) == IF b = 0 THEN a ELSE GCD(b, a % b)

\* t/scale > b for integers t and scale > 0.  With D = t*den - scale*num the
\* comparison is D/(scale*den) > k*sqrt(sq_num/sq_den), decided on the
\* squares: D^2 * sq_den against (k*scale*den)^2 * sq_num, both divided by
\* their common factor to keep the products small.
GtAt(t, scale, b) ==
    IF b.nan THEN FALSE
    ELSE LET D  == t * b.den - scale * b.num
             K  == b.k * b.k * scale * scale * b.den * b.den
             g  == GCD(b.sq_den, K)
             a  == b.sq_den \div g
             R  == (K \div g) * b.sq_num
         IN  IF b.k >= 0
                THEN D > 0 /\ D * D > R \div a
                ELSE \/ D > 0
                     \/ D = 0 /\ R > 0
                     \/ D < 0 /\ (IF R % a = 0 THEN D * D < R \div a
                                               ELSE D * D <= R \div a)

\* t/scale < b
LtAt(t, scale, b) ==
    IF b.nan THEN FALSE
    ELSE GtAt(-t, scale, [b EXCEPT !.num = -b.num, !.k = -b.k])

\* t > b and t < b for an integer t
Gt(t, b) == GtAt(t, 1, b)
Lt(t, b) == LtAt(t, 1, b)

(***************************************************************************)
(* DataFrame helpers.  A city is a number: its rank in the alphabetical     *)
(* order of the city names.                                                *)
(***************************************************************************)
Row(i, c, ts, t, s) ==
    [index |-> i, city |-> c, timestamp |-> ts, temperature |-> t, season |-> s]

\* df[mask]: the rows whose mask is TRUE, in their order, index labels kept
Filter(df, mask) ==
    LET kept == SelectSeq([i \in 1..Len(df) |-> i], LAMBDA i : mask[i])
    IN  [j \in 1..Len(kept) |-> df[kept[j]]]

Temperatures(df) == [i \in 1..Len(df) |-> df[i].temperature]

\* sum(s)
RECURSIVE SumSeq(_)
SumSeq(s) == IF Len(s) = 0 THEN 0 ELSE s[1] + SumSeq(Tail(s))

(***************************************************************************)
(* Series.rolling(window): a window slides over the series, one value      *)
(* entering and, once window values are in, the oldest one leaving.  The   *)
(* aggregate at position i is over the nobs = min(i, window) values in the *)
(* window; min_periods defaults to window.                                 *)
(***************************************************************************)
RECURSIVE Rolling(_, _, _, _, _, _)
Rolling(x, W, i, S, Q, acc) ==
    IF i > Len(x) THEN acc
    ELSE LET out  == IF i > W THEN x[i - W] ELSE 0
             S1   == S + x[i] - out
             Q1   == Q + x[i] * x[i] - out * out
             nobs == IF i > W THEN W ELSE i
         IN  Rolling(x, W, i + 1, S1, Q1,
                     Append(acc, [nobs |-> nobs, sum |-> S1, sumsq |-> Q1]))

\* min_periods = 1
MinPeriodsOne(W) == 1

\* min_periods is None: it defaults to the window
MinPeriods(W) == W

\* .rolling(window).mean()
RollingMean(x, W) ==
    LET agg == Rolling(x, W, 1, 0, 0, <<>>)
    IN  [i \in 1..Len(x) |->
            IF agg[i].nobs >= MinPeriods(W) /\ agg[i].nobs > 0
                THEN Rat(agg[i].sum, agg[i].nobs)
                ELSE NaN]

\* std()'s default delta degrees of freedom
Ddof == 1

\* the population standard deviation: the variance with divisor nobs
RollingStdPopulation(x, W) ==
    LET agg == Rolling(x, W, 1, 0, 0, <<>>)
    IN  [i \in 1..Len(x) |->
            IF agg[i].nobs >= MinPeriods(W) /\ agg[i].nobs > Ddof
                THEN Root(agg[i].nobs * agg[i].sumsq - agg[i].sum * agg[i].sum,
                          agg[i].nobs * agg[i].nobs)
                ELSE NaN]

\* .rolling(window).std(): sqrt of the variance with divisor nobs - ddof
RollingStd(x, W) ==
    LET agg == Rolling(x, W, 1, 0, 0, <<>>)
    IN  [i \in 1..Len(x) |->
            IF agg[i].nobs >= MinPeriods(W) /\ agg[i].nobs > Ddof
                THEN Root(agg[i].nobs * agg[i].sumsq - agg[i].sum * agg[i].sum,
                          agg[i].nobs * (agg[i].nobs - Ddof))
                ELSE NaN]

calculate_moving_average(df, W) == RollingMean(Temperatures(df), W)

\* the factor of rolling_std in the bounds
Sigmas == 2

UpperBound(m, s) == Plus(m, Times(Sigmas, s))
LowerBound(m, s) == Minus(m, Times(Sigmas, s))

\* the mask with the comparisons not strict
IsOutsideInclusive(t, upper, lower) ==
    (~upper.nan /\ ~Lt(t, upper)) \/ (~lower.nan /\ ~Gt(t, lower))

\* (data['temperature'] > upper_bound) | (data['temperature'] < lower_bound)
IsOutside(t, upper, lower) == Gt(t, upper) \/ Lt(t, lower)

calculate_anomalies(df, W) ==
    LET rolling_mean == calculate_moving_average(df, W)
        rolling_std  == RollingStd(Temperatures(df), W)
        upper_bound  == [i \in 1..Len(df) |-> UpperBound(rolling_mean[i], rolling_std[i])]
        lower_bound  == [i \in 1..Len(df) |-> LowerBound(rolling_mean[i], rolling_std[i])]
        mask         == [i \in 1..Len(df) |->
                            IsOutside(df[i].temperature, upper_bound[i], lower_bound[i])]
    IN  [anomalies    |-> Filter(df, mask),
         rolling_mean |-> rolling_mean,
         upper_bound  |-> upper_bound,
         lower_bound  |-> lower_bound]

(***************************************************************************)
(* Initial values of the variables a specification does not use.           *)
(***************************************************************************)
\* weather_data before the request, and when the request returned None
NoData == [none |-> TRUE, keys |-> {}, cod |-> 0, temp |-> 0]

\* the locals of the live section before they are assigned
NoLive == [current_temp |-> 0, current_month |-> 0, current_season |-> "",
           has_verdict |-> FALSE, is_anomaly |-> FALSE]

MaxWorkers == 4
Workers == 1..MaxWorkers

BatchIdle ==
    /\ seq_result = None
    /\ call_queue = <<>>
    /\ running = [w \in Workers |-> 0]
    /\ futures = <<>>
    /\ completed = <<>>
    /\ par_result = None

MainIdle ==
    /\ selected_city = 0
    /\ api_key = FALSE
    /\ use_async = FALSE
    /\ stats = None
    /\ seasonal_stats = None
    /\ weather_data = NoData
    /\ live = NoLive
    /\ ui = <<>>

(***************************************************************************)
(* SpecAnomalies: calculate_anomalies as a function of its arguments.      *)
(***************************************************************************)
AllSeries == UNION {[1..n -> 0..MaxTemp] : n \in 0..MaxLen}

\* a one-city DataFrame holding the temperatures, one row a day
MkFrame(temps) == [i \in 1..Len(temps) |-> Row(i - 1, 1, i, temps[i], "winter")]

\* 35 daily points: 34 times 10 degrees, then 50 degrees
Example35 == [i \in 1..35 |-> IF i = 35 THEN 50 ELSE 10]

InitAnomalies ==
    /\ \/ /\ data \in {MkFrame(s) : s \in AllSeries}
          /\ window \in 1..MaxWindow
       \/ /\ data = MkFrame(Example35)
          /\ window = DefaultWindow
    /\ pc = "start"
    /\ result = None
    /\ BatchIdle
    /\ MainIdle

CalculateAnomalies ==
    /\ pc = "start"
    /\ result' = calculate_anomalies(data, window)
    /\ pc' = "done"
    /\ UNCHANGED <<data, window, batchVars, mainVars>>

NextAnomalies == CalculateAnomalies

SpecAnomalies == InitAnomalies /\ [][NextAnomalies]_vars

(***************************************************************************)
(* Claims about calculate_anomalies                                        *)
(***************************************************************************)
\* the trailing W temperatures ending at position i (1-based, i >= W)
Slice(i) == SubSeq(Temperatures(data), i - window + 1, i)

\* W * (x - mean) for every x of the slice, and the sum of their squares
SliceDev(i) == [j \in 1..window |-> window * Slice(i)[j] - SumSeq(Slice(i))]
SliceSS(i)  == SumSeq([j \in 1..window |-> SliceDev(i)[j] * SliceDev(i)[j]])

\* |t - mean| > 2 * std, with std^2 = sum (x - mean)^2 / (W - 1), on a filled window
TwoSigmaOutlier(i) ==
    /\ i >= window
    /\ window >= 2
    /\ LET D == window * data[i].temperature - SumSeq(Slice(i))
       IN  D * D * (window - 1) > 4 * SliceSS(i)

\* b is mean + k * std of the slice ending at i, with
\* std^2 = sum (x - mean)^2 / (W - 1) = SliceSS / (W^2 * (W - 1))
IsMeanPlusStd(b, i, k) ==
    /\ ~b.nan
    /\ b.k = k
    /\ b.num * window = SumSeq(Slice(i)) * b.den
    /\ b.sq_num * (window * window * (window - 1)) = SliceSS(i) * b.sq_den

Indexes(rows) == [j \in 1..Len(rows) |-> rows[j].index]

\* C1: the anomalies are exactly the observations at filled-window positions
\* whose temperature lies strictly beyond mean +/- 2 * (Bessel-corrected std)
\* of the trailing window, in their original order; the rolling mean is the
\* arithmetic mean of the trailing window and the bounds are that mean plus and
\* minus twice that std; and on 34 points of 10 followed by one of 50 with
\* W = 30 the only anomaly is the point at index 34.
C1_AnomaliesAreTwoSigmaOutliers ==
    pc = "done" =>
        /\ result.anomalies =
              Filter(data, [i \in 1..Len(data) |-> TwoSigmaOutlier(i)])
        /\ \A i \in window..Len(data) :
              /\ ~result.rolling_mean[i].nan
              /\ result.rolling_mean[i].num * window
                    = SumSeq(Slice(i)) * result.rolling_mean[i].den
              /\ window >= 2 => /\ IsMeanPlusStd(result.upper_bound[i], i, 2)
                                /\ IsMeanPlusStd(result.lower_bound[i], i, -2)
        /\ (data = MkFrame(Example35) /\ window = 30)
              => Indexes(result.anomalies) = <<34>>

C1_Witness ==
    /\ pc = "done"
    /\ data = MkFrame(Example35)
    /\ window = 30
    /\ Len(result.anomalies) = 1
    /\ result.anomalies[1].temperature = 50

Aligned(W) ==
    /\ Len(result.rolling_mean) = Len(data)
    /\ Len(result.upper_bound) = Len(data)
    /\ Len(result.lower_bound) = Len(data)
    /\ \A i \in 1..Len(data) :
          /\ result.rolling_mean[i].nan <=> i < W
          /\ result.upper_bound[i].nan <=> i < W
          /\ result.lower_bound[i].nan <=> i < W
    /\ \A j \in 1..Len(result.anomalies) : result.anomalies[j].index >= W - 1

\* C2 as claimed: for every window W the rolling mean and both bounds have
\* the input's length, are undefined at indices 0..W-2 and defined at
\* W-1..L-1, and no observation at an index in 0..W-2 is an anomaly.
C2_AlignedForEveryWindow == pc = "done" => Aligned(window)

\* C2 as amended: the above for every window W >= 2; for W = 1 the rolling
\* mean is defined at every index, both bounds are undefined at every index,
\* and there are no anomalies.
C2_AlignedFromWindowTwo ==
    pc = "done" =>
        /\ window >= 2 => Aligned(window)
        /\ window = 1 =>
              /\ Len(result.rolling_mean) = Len(data)
              /\ Len(result.upper_bound) = Len(data)
              /\ Len(result.lower_bound) = Len(data)
              /\ \A i \in 1..Len(data) :
                    /\ ~result.rolling_mean[i].nan
                    /\ result.upper_bound[i].nan
                    /\ result.lower_bound[i].nan
              /\ result.anomalies = <<>>

C2_Witness ==
    /\ pc = "done"
    /\ window = 3
    /\ Len(data) = 5
    /\ result.upper_bound[2].nan
    /\ ~result.upper_bound[3].nan
    /\ data[1].temperature # data[2].temperature

IsConstant(df) == \A i, j \in 1..Len(df) : df[i].temperature = df[j].temperature

\* the bound b equals the integer c
EqualsInt(b, c) == ~b.nan /\ ~Gt(c, b) /\ ~Lt(c, b)

\* C3: on a series whose temperatures all equal c, for every window, the
\* rolling std is 0 wherever defined, both bounds equal c wherever defined,
\* and no anomaly is returned.
C3_ConstantSeriesHasNoAnomalies ==
    (pc = "done" /\ IsConstant(data)) =>
        /\ \A i \in 1..Len(data) :
              LET s == RollingStd(Temperatures(data), window)[i]
              IN  ~s.nan => s.sq_num = 0
        /\ \A i \in 1..Len(data) :
              /\ ~result.upper_bound[i].nan
                    => EqualsInt(result.upper_bound[i], data[i].temperature)
              /\ ~result.lower_bound[i].nan
                    => EqualsInt(result.lower_bound[i], data[i].temperature)
        /\ result.anomalies = <<>>

C3_Witness ==
    /\ pc = "done"
    /\ IsConstant(data)
    /\ window = 2
    /\ Len(data) = 4
    /\ data[1].temperature = 1
    /\ EqualsInt(result.upper_bound[4], 1)

\* position i ends a filled window whose other values are all equal and
\* differ from the value at i
LoneOutlier(i) ==
    /\ i >= window
    /\ \A j \in 1..(window - 1) : Slice(i)[j] = Slice(i)[1]
    /\ window >= 2
    /\ Slice(i)[window] # Slice(i)[1]

\* C10: with a window of 1..5 calculate_anomalies returns no anomaly,
\* whatever the series; a lone outlier among otherwise equal values is
\* flagged when the window is 6 or more, and only then.
C10_NoAnomaliesUpToWindowFive ==
    pc = "done" =>
        /\ window <= 5 => result.anomalies = <<>>
        /\ \A i \in 1..Len(data) :
              (LoneOutlier(i) /\ window >= 6)
                 => \E j \in 1..Len(result.anomalies) : result.anomalies[j] = data[i]

C10_Witness ==
    /\ pc = "done"
    /\ window = 5
    /\ Len(data) = 6
    /\ LoneOutlier(6)
    /\ result.anomalies = <<>>

(***************************************************************************)
(* groupby('city')                                                         *)
(***************************************************************************)
Cities(df) == {df[i].city : i \in 1..Len(df)}

\* the rows of one city, in the DataFrame's order, index labels kept
Group(df, c) == Filter(df, [i \in 1..Len(df) |-> df[i].city = c])

RECURSIVE Ascending(_)
Ascending(S) ==
    IF S = {} THEN <<>>
    ELSE LET m == CHOOSE x \in S : \A y \in S : x <= y
         IN  <<m>> \o Ascending(S \ {m})

\* groups.groups.keys(): the group keys, sorted
GroupKeys(df) == Ascending(Cities(df))

\* [group for name, group in groups]: the groups, in the order of the sorted keys
GroupList(df) ==
    LET keys == Ascending(Cities(df))
    IN  [j \in 1..Len(keys) |-> Group(df, keys[j])]

\* data.groupby('city').apply(calculate_anomalies).to_dict()
analyze_data_sequential(df) ==
    [c \in Cities(df) |-> calculate_anomalies(Group(df, c), DefaultWindow)]

(***************************************************************************)
(* SpecBatch: compare_execution_times, i.e. analyze_data_sequential and    *)
(* then analyze_data_parallel on the same data.  executor.map submits one  *)
(* task per group; the pool's workers take the tasks from the call queue   *)
(* in order and finish them in any order; the dictionary comprehension     *)
(* consumes the results in the order of submission, waiting for each.      *)
(***************************************************************************)
MaxCities == 4      \* the enumerated datasets hold 3..MaxCities cities

\* the history of city c: 30 + c daily points of 10 + c degrees, and for an
\* odd c one point of 40 + c degrees on day 31
CitySeries(c) ==
    [i \in 1..(30 + c) |-> IF i = 31 /\ c % 2 = 1 THEN 40 + c ELSE 10 + c]

CityRows(c) == [i \in 1..(30 + c) |-> Row(0, c, i, CitySeries(c)[i], "winter")]

\* read_csv numbers the rows 0, 1, 2, ...
Reindex(rows) == [i \in 1..Len(rows) |-> [rows[i] EXCEPT !.index = i - 1]]

RECURSIVE Concat(_, _)
Concat(order, j) ==
    IF j > Len(order) THEN <<>> ELSE CityRows(order[j]) \o Concat(order, j + 1)

RECURSIVE Descending(_)
Descending(n) == IF n = 0 THEN <<>> ELSE <<n>> \o Descending(n - 1)

\* day by day, the rows of all cities that have that day
RECURSIVE ByDay(_, _)
ByDay(n, day) ==
    IF day > 30 + n THEN <<>>
    ELSE LET present == SelectSeq(Descending(n), LAMBDA c : 30 + c >= day)
         IN  [j \in 1..Len(present) |-> CityRows(present[j])[day]] \o ByDay(n, day + 1)

\* the uploaded files: city after city, in either order of the cities, or day after day
BatchFrames ==
    UNION {{Reindex(Concat(Ascending(1..n), 1)),
            Reindex(Concat(Descending(n), 1)),
            Reindex(ByDay(n, 1))} : n \in 3..MaxCities}

InitBatch ==
    /\ data \in BatchFrames
    /\ window = DefaultWindow
    /\ pc = "start"
    /\ result = None
    /\ BatchIdle
    /\ MainIdle

AnalyzeSequential ==
    /\ pc = "start"
    /\ seq_result' = analyze_data_sequential(data)
    /\ pc' = "sequential_done"
    /\ UNCHANGED <<data, window, result, call_queue, running, futures, completed,
                   par_result, mainVars>>

\* a future: pending, or done with the task's return value
Pending == [done |-> FALSE, value |-> <<>>]
Done(v) == [done |-> TRUE, value |-> v]

\* executor.map(calculate_anomalies, [group for name, group in groups])
ExecutorMap ==
    /\ pc = "sequential_done"
    /\ call_queue' = [j \in 1..Len(GroupList(data)) |-> j]
    /\ futures' = [j \in 1..Len(GroupList(data)) |-> Pending]
    /\ par_result' = <<>>
    /\ pc' = "mapping"
    /\ UNCHANGED <<data, window, result, seq_result, running, completed, mainVars>>

WorkerTake(w) ==
    /\ pc = "mapping"
    /\ running[w] = 0
    /\ call_queue # <<>>
    /\ running' = [running EXCEPT ![w] = Head(call_queue)]
    /\ call_queue' = Tail(call_queue)
    /\ UNCHANGED <<coreVars, seq_result, futures, completed, par_result, mainVars>>

\* the future a finished task's result is set on, when `done` tasks finished before it
ResultSlotByCompletion(task, done) == done + 1

ResultSlot(task, done) == task

WorkerFinish(w) ==
    /\ pc = "mapping"
    /\ running[w] # 0
    /\ futures' = [futures EXCEPT ![ResultSlot(running[w], Len(completed))] =
                      Done(calculate_anomalies(GroupList(data)[running[w]], DefaultWindow))]
    /\ completed' = Append(completed, running[w])
    /\ running' = [running EXCEPT ![w] = 0]
    /\ UNCHANGED <<coreVars, seq_result, call_queue, par_result, mainVars>>

\* {name: result for name, result in zip(groups.groups.keys(), results)}: one pair
Collect ==
    /\ pc = "mapping"
    /\ LET j == Cardinality(DOMAIN par_result) + 1
       IN  /\ j <= Len(futures)
           /\ futures[j].done
           /\ par_result' = (GroupKeys(data)[j] :> futures[j].value) @@ par_result
           /\ pc' = IF j = Len(futures) THEN "done" ELSE "mapping"
    /\ UNCHANGED <<data, window, result, seq_result, call_queue, running, futures,
                   completed, mainVars>>

NextBatch ==
    \/ AnalyzeSequential
    \/ ExecutorMap
    \/ \E w \in Workers : WorkerTake(w)
    \/ \E w \in Workers : WorkerFinish(w)
    \/ Collect

SpecBatch == InitBatch /\ [][NextBatch]_vars

\* the rows of city c and of no other city, in the order of the file
OwnRows(df, c) == SelectSeq(df, LAMBDA r : r.city = c)

\* C4: on a dataset of at least 3 cities, whatever the interleaving and the
\* completion order of the per-city tasks on the (up to 4) workers,
\* analyze_data_parallel returns the mapping analyze_data_sequential
\* returns: the same city keys, and for each city what calculate_anomalies
\* gives on that city's rows alone.
C4_ParallelEqualsSequential ==
    (pc = "done" /\ Cardinality(Cities(data)) >= 3) =>
        /\ DOMAIN par_result = Cities(data)
        /\ DOMAIN seq_result = Cities(data)
        /\ \A c \in Cities(data) :
              /\ par_result[c] = seq_result[c]
              /\ par_result[c] = calculate_anomalies(OwnRows(data, c), 30)
              /\ \A j \in 1..Len(par_result[c].anomalies) :
                    par_result[c].anomalies[j].city = c

\* a file not sorted by city, the last task finishing first, a city with an
\* anomaly and one without
C4_Witness ==
    /\ pc = "done"
    /\ Cardinality(Cities(data)) >= 3
    /\ data[1].city # 1
    /\ completed[1] = Len(completed)
    /\ par_result[1].anomalies # <<>>
    /\ par_result[2].anomalies = <<>>

(***************************************************************************)
(* The seasonal tables of main.                                            *)
(***************************************************************************)
Seasons(df) == {df[i].season : i \in 1..Len(df)}

\* the temperatures of one season, in the DataFrame's order
SeasonTemps(df, season) == Temperatures(SelectSeq(df, LAMBDA r : r.season = season))

\* Series.mean() and Series.std() of a group
GroupMean(x) == IF Len(x) > 0 THEN Rat(SumSeq(x), Len(x)) ELSE NaN

GroupStd(x) ==
    IF Len(x) > Ddof
        THEN Root(Len(x) * SumSeq([i \in 1..Len(x) |-> x[i] * x[i]]) - SumSeq(x) * SumSeq(x),
                  Len(x) * (Len(x) - Ddof))
        ELSE NaN

\* a value of the rounded table, in hundredths of a degree
Hundredths(v) == [nan |-> FALSE, v |-> v]
NaNHundredths == [nan |-> TRUE, v |-> 0]

\* a/b rounded to the nearest integer, halves to the even one (b > 0)
RoundHalfEven(a, b) ==
    LET q == a \div b
        r == a % b
    IN  IF 2 * r < b THEN q
        ELSE IF 2 * r > b THEN q + 1
        ELSE IF q % 2 = 0 THEN q ELSE q + 1

\* the largest r in lo..hi with r * r <= n
RECURSIVE ISqrt(_, _, _)
ISqrt(n, lo, hi) ==
    IF lo = hi THEN lo
    ELSE LET mid == (lo + hi + 1) \div 2
         IN  IF mid * mid <= n THEN ISqrt(n, mid, hi) ELSE ISqrt(n, lo, mid - 1)

\* .round(2) of a mean (k = 0) or of a standard deviation (k = 1)
Round2(x) ==
    IF x.nan THEN NaNHundredths
    ELSE IF x.k = 0 THEN Hundredths(RoundHalfEven(100 * x.num, x.den))
    ELSE LET n4 == 40000 * x.sq_num
             y  == ISqrt(n4 \div x.sq_den, 0, 60000)    \* floor(200 * std)
             j  == y \div 2
         IN  IF y % 2 = 0 THEN Hundredths(j)
             ELSE IF y * y * x.sq_den = n4 /\ j % 2 = 0 THEN Hundredths(j)
             ELSE Hundredths(j + 1)

\* city_data.groupby('season')['temperature'].agg(['mean', 'std', ...]).round(2):
\* one row per season present in the city's data
StatsTable(city_data) ==
    [season \in Seasons(city_data) |->
        [mean |-> Round2(GroupMean(SeasonTemps(city_data, season))),
         std  |-> Round2(GroupStd(SeasonTemps(city_data, season)))]]

\* city_data.groupby('season')['temperature'].agg(['mean', 'std']): not rounded
SeasonalStatsTable(city_data) ==
    [season \in Seasons(city_data) |->
        [mean |-> GroupMean(SeasonTemps(city_data, season)),
         std  |-> GroupStd(SeasonTemps(city_data, season))]]

\* the dictionary of lines 286-289
SeasonOfMonth(month) ==
    CASE month \in {12, 1, 2}  -> "winter"
      [] month \in {3, 4, 5}   -> "spring"
      [] month \in {6, 7, 8}   -> "summer"
      [] month \in {9, 10, 11} -> "autumn"

\* a lookup that yields a row of NaN for a missing label
LocOrNaN(table, season) ==
    IF season \in DOMAIN table
        THEN [found |-> TRUE, row |-> table[season]]
        ELSE [found |-> TRUE, row |-> [mean |-> NaNHundredths, std |-> NaNHundredths]]

\* stats.loc[current_season]: the row, or KeyError (found = FALSE)
Loc(table, season) ==
    IF season \in DOMAIN table
        THEN [found |-> TRUE, row |-> table[season]]
        ELSE [found |-> FALSE, row |-> [mean |-> NaNHundredths, std |-> NaNHundredths]]

\* the verdict with the comparisons not strict
IsAnomalyInclusive(current_temp, season_stats) ==
    /\ ~season_stats.mean.nan
    /\ ~season_stats.std.nan
    /\ \/ current_temp >= season_stats.mean.v + 2 * season_stats.std.v
       \/ current_temp <= season_stats.mean.v - 2 * season_stats.std.v

\* lines 292-293; current_temp in hundredths; a comparison with NaN is False
IsAnomaly(current_temp, season_stats) ==
    /\ ~season_stats.mean.nan
    /\ ~season_stats.std.nan
    /\ \/ current_temp > season_stats.mean.v + 2 * season_stats.std.v
       \/ current_temp < season_stats.mean.v - 2 * season_stats.std.v

(***************************************************************************)
(* SpecMain: one run of main on an uploaded file.                          *)
(***************************************************************************)
\* pd.to_datetime accepts the timestamp (an unparseable one is written -1)
Parses(ts) == ts >= 0

\* city 1: 31 winter days, 0 degrees on days 1..30 and 4 degrees on day 31
LongHistory == [i \in 1..31 |-> Row(0, 1, i, IF i = 31 THEN 4 ELSE 0, "winter")]

\* the rows of city 1 with the row of day 31 written at position p of the file
MovedTo(p) ==
    [i \in 1..31 |-> IF i < p THEN LongHistory[i]
                     ELSE IF i = p THEN LongHistory[31]
                     ELSE LongHistory[i - 1]]

LastDayAt == {1, 15, 30, 31}

\* city 2: three winter days, three spring days, one summer day, no autumn
ShortHistory(spring) ==
    <<Row(0, 2, 1, -5, "winter"), Row(0, 2, 2, 0, "winter"), Row(0, 2, 3, 5, "winter"),
      Row(0, 2, 4, spring[1], "spring"), Row(0, 2, 5, spring[2], "spring"),
      Row(0, 2, 6, spring[3], "spring"), Row(0, 2, 7, 7, "summer")>>

SpringTemps == {<<0, 0, 0>>, <<0, 1, 0>>, <<0, 1, 2>>, <<2, 0, 1>>}

\* a file with a timestamp that does not parse
MalformedFile == <<Row(0, 1, 1, 0, "winter"), Row(1, 1, -1, 0, "winter")>>

MainFiles ==
    {Reindex(MovedTo(p) \o ShortHistory(sp)) : p \in LastDayAt, sp \in SpringTemps}
        \cup {MalformedFile}

\* the live temperatures the service may report, in hundredths of a degree
LiveTemps == {-1000, 900, 1000, 1100} \cup (145..152)

\* what the weather service may do with a request
Responses ==
    {[kind |-> "exception", status |-> 0,   keys |-> {}, cod |-> 0, temp |-> 0],
     [kind |-> "json", status |-> 401, keys |-> {"cod", "message"}, cod |-> 401, temp |-> 0],
     [kind |-> "json", status |-> 404, keys |-> {"cod", "message"}, cod |-> 404, temp |-> 0],
     [kind |-> "json", status |-> 200, keys |-> {"cod", "message"}, cod |-> 401, temp |-> 0]}
    \cup {[kind |-> "json", status |-> 200, keys |-> {"cod", "main"}, cod |-> 200, temp |-> t] :
             t \in LiveTemps}

InitMain ==
    /\ data \in MainFiles
    /\ window = DefaultWindow
    /\ pc = "start"
    /\ result = None
    /\ BatchIdle
    /\ MainIdle

\* load_data: read_csv, then to_datetime, which raises on a timestamp it cannot
\* parse; nothing in main catches that
LoadData ==
    /\ pc = "start"
    /\ pc' = IF \A i \in 1..Len(data) : Parses(data[i].timestamp) THEN "loaded" ELSE "crashed"
    /\ UNCHANGED <<data, window, result, batchVars, mainVars>>

\* the sidebar: the city, the API key and, with a key, the request method
Sidebar ==
    /\ pc = "loaded"
    /\ \E c \in Cities(data), key \in BOOLEAN, async \in BOOLEAN :
          /\ key \/ ~async
          /\ selected_city' = c
          /\ api_key' = key
          /\ use_async' = async
    /\ pc' = "sidebar"
    /\ UNCHANGED <<data, window, result, batchVars, stats, seasonal_stats,
                   weather_data, live, ui>>

\* data[data['city'] == selected_city]
CityData == Group(data, selected_city)

\* lines 135-269: the tables and the anomalies of the selected city
Analyse ==
    /\ pc = "sidebar"
    /\ stats' = StatsTable(CityData)
    /\ result' = calculate_anomalies(CityData, DefaultWindow)
    /\ seasonal_stats' = SeasonalStatsTable(CityData)
    /\ pc' = IF api_key THEN "live" ELSE "done"
    /\ UNCHANGED <<data, window, batchVars, selected_city, api_key, use_async,
                   weather_data, live, ui>>

\* get_weather_async / get_weather_sync, and the except clause of main when
\* the request raises
GetWeather(resp) ==
    /\ pc = "live"
    /\ IF resp.kind = "exception"
          THEN /\ ui' = Append(ui, "error_exception")
               /\ weather_data' = weather_data
               /\ pc' = "done"
          ELSE IF resp.status = 401
          THEN /\ ui' = Append(ui, "error_401")
               /\ weather_data' = NoData
               /\ pc' = "fetched"
          ELSE /\ ui' = ui
               /\ weather_data' = [none |-> FALSE, keys |-> resp.keys,
                                   cod |-> resp.cod, temp |-> resp.temp]
               /\ pc' = "fetched"
    /\ UNCHANGED <<data, window, result, batchVars, selected_city, api_key,
                   use_async, stats, seasonal_stats, live>>

GetWeatherAsync == \E resp \in Responses : use_async /\ GetWeather(resp)

GetWeatherSync == \E resp \in Responses : ~use_async /\ GetWeather(resp)

\* lines 280-303
ShowLive ==
    /\ pc = "fetched"
    /\ \E month \in 1..12 :
          IF weather_data.none \/ weather_data.keys = {}
             THEN UNCHANGED <<live, ui>>
          ELSE IF "cod" \in weather_data.keys /\ weather_data.cod = 401
             THEN /\ ui' = Append(ui, "error_cod_401")
                  /\ UNCHANGED live
          ELSE IF "main" \in weather_data.keys
             THEN LET season_stats == Loc(stats, SeasonOfMonth(month))
                      reached == [NoLive EXCEPT !.current_temp = weather_data.temp,
                                                !.current_month = month,
                                                !.current_season = SeasonOfMonth(month)]
                  IN  IF ~season_stats.found
                         THEN /\ live' = reached
                              /\ ui' = Append(ui, "error_exception")
                         ELSE /\ live' = [reached EXCEPT
                                            !.has_verdict = TRUE,
                                            !.is_anomaly =
                                                IsAnomaly(weather_data.temp, season_stats.row)]
                              /\ ui' = ui \o <<"metric",
                                               IF IsAnomaly(weather_data.temp, season_stats.row)
                                                  THEN "warning" ELSE "success">>
          ELSE UNCHANGED <<live, ui>>
    /\ pc' = "done"
    /\ UNCHANGED <<data, window, result, batchVars, selected_city, api_key,
                   use_async, stats, seasonal_stats, weather_data>>

NextMain ==
    \/ LoadData
    \/ Sidebar
    \/ Analyse
    \/ GetWeatherAsync
    \/ GetWeatherSync
    \/ ShowLive

SpecMain == InitMain /\ [][NextMain]_vars

(***************************************************************************)
(* Claims about the page run                                               *)
(***************************************************************************)
Count(msgs, kinds) == Cardinality({i \in 1..Len(msgs) : msgs[i] \in kinds})

Shown(msg) == \E i \in 1..Len(ui) : ui[i] = msg

Errors == {"error_exception", "error_401", "error_cod_401"}

\* the verdict the unrounded seasonal table gives for the live reading
UnroundedVerdict ==
    LET row == seasonal_stats[live.current_season]
    IN  \/ GtAt(live.current_temp, 100, Plus(row.mean, Times(2, row.std)))
        \/ LtAt(live.current_temp, 100, Minus(row.mean, Times(2, row.std)))

\* C5: the live verdict is the one the unrounded seasonal mean and std give:
\* rounding the table to 2 decimals does not change is_anomaly.
C5_VerdictIndependentOfRounding ==
    live.has_verdict => (live.is_anomaly <=> UnroundedVerdict)

\* C6: the live verdict is TRUE iff the reading is strictly above
\* mean + 2*std or strictly below mean - 2*std of the current season's row of
\* the statistics table (with mean 0 and std 5: 11 is anomalous, 9 and 10
\* are not); the warning is shown iff the verdict is TRUE, the success
\* message iff it is FALSE, never both, and neither without a verdict.
C6_TwoSigmaVerdictAndMessage ==
    pc = "done" =>
        /\ live.has_verdict =>
              LET m == stats[live.current_season].mean
                  d == stats[live.current_season].std
                  t == live.current_temp
              IN  /\ live.is_anomaly <=>
                        (~d.nan /\ (t > m.v + 2 * d.v \/ t < m.v - 2 * d.v))
                  /\ (~d.nan /\ m.v = 0 /\ d.v = 500) =>
                        /\ t = 1100 => live.is_anomaly
                        /\ t = 900 => ~live.is_anomaly
                        /\ t = 1000 => ~live.is_anomaly
                  /\ Shown("warning") <=> live.is_anomaly
                  /\ Shown("success") <=> ~live.is_anomaly
        /\ ~live.has_verdict => ~Shown("warning") /\ ~Shown("success")
        /\ Count(ui, {"warning", "success"}) <= 1

C6_Witness ==
    /\ pc = "done"
    /\ live.has_verdict
    /\ stats[live.current_season].mean.v = 0
    /\ stats[live.current_season].std = Hundredths(500)
    /\ live.current_temp = 1000
    /\ ~live.is_anomaly
    /\ ui = <<"metric", "success">>

\* C7: when the season of the current month (12,1,2 winter; 3,4,5 spring;
\* 6,7,8 summer; 9,10,11 autumn) has no row in the selected city's
\* statistics, the lookup fails, there is no verdict and no verdict message,
\* the failure is shown as an error, and the page run ends normally.
C7_MissingSeasonIsReportedAsError ==
    live.current_month # 0 =>
        /\ live.current_month \in {12, 1, 2} => live.current_season = "winter"
        /\ live.current_month \in {3, 4, 5} => live.current_season = "spring"
        /\ live.current_month \in {6, 7, 8} => live.current_season = "summer"
        /\ live.current_month \in {9, 10, 11} => live.current_season = "autumn"
        /\ live.current_season \notin Seasons(CityData) =>
              /\ ~live.has_verdict
              /\ ~Shown("warning") /\ ~Shown("success") /\ ~Shown("metric")
              /\ ui = <<"error_exception">>
              /\ pc = "done"

C7_Witness ==
    /\ pc = "done"
    /\ selected_city = 2
    /\ live.current_month = 10
    /\ live.current_season = "autumn"
    /\ "autumn" \notin DOMAIN stats
    /\ ui = <<"error_exception">>

\* C8: a live-weather lookup made with an API key ends either with a
\* verdict for a temperature the service returned, or with exactly one
\* error message; never with both, with several errors or with no output.
C8_VerdictOrSingleError ==
    (pc = "done" /\ api_key) =>
        \/ /\ live.has_verdict
           /\ "main" \in weather_data.keys
           /\ live.current_temp = weather_data.temp
           /\ Count(ui, {"warning", "success"}) = 1
           /\ Count(ui, Errors) = 0
        \/ /\ ~live.has_verdict
           /\ Count(ui, {"warning", "success"}) = 0
           /\ Count(ui, Errors) = 1

IsSortedByTimestamp(df) ==
    \A i, j \in 1..Len(df) : i < j => df[i].timestamp <= df[j].timestamp

\* the rows in ascending order of their (distinct) timestamps
SortByTimestamp(df) ==
    [k \in 1..Len(df) |->
        df[CHOOSE i \in 1..Len(df) :
              Cardinality({j \in 1..Len(df) : df[j].timestamp < df[i].timestamp}) = k - 1]]

Observations(rows) == {[rows[j] EXCEPT !.index = 0] : j \in 1..Len(rows)}

\* C9: whatever the row order of the uploaded file, the series handed to
\* calculate_anomalies is sorted ascending by timestamp, so the anomalous
\* observations are those of the file sorted by time.
C9_SeriesSortedByTimestamp ==
    pc \in {"live", "fetched", "done"} =>
        /\ IsSortedByTimestamp(CityData)
        /\ Observations(result.anomalies) =
              Observations(calculate_anomalies(SortByTimestamp(CityData),
                                               DefaultWindow).anomalies)

====
